---- MODULE Spec2Model ----
(***************************************************************************)
(* WorkflowService of lib/workflows.go: six operations that build a URL    *)
(* from the configured BackendURL, shape a payload, hand (ctx, method,     *)
(* url, payload) to the client's makeHTTPRequest and relay its result.     *)
(*                                                                         *)
(* Strings are sequences of one-character strings.  The functions of Go's  *)
(* standard library the operations call (net/url, path, strconv) are       *)
(* modelled by what they compute on such sequences.                        *)
(***************************************************************************)
EXTENDS Integers, Sequences, FiniteSets, TLC

\* ------------------------------------------------------------------ bounds

\* Longest identifier the callers pass.
MaxIdLen == 3

\* Largest page and limit the callers pass (the smallest is -1).
MaxPage == 25

\* ----------------------------------------------------------------- strings

\* The byte value of each character that occurs in the model.
Ord(c) ==
  CASE c = "#" -> 35 [] c = "%" -> 37 [] c = "&" -> 38 [] c = "-" -> 45
    [] c = "." -> 46 [] c = "/" -> 47
    [] c = "0" -> 48 [] c = "1" -> 49 [] c = "2" -> 50 [] c = "3" -> 51
    [] c = "4" -> 52 [] c = "5" -> 53 [] c = "6" -> 54 [] c = "7" -> 55
    [] c = "8" -> 56 [] c = "9" -> 57
    [] c = "=" -> 61 [] c = "?" -> 63
    [] c = "A" -> 65 [] c = "B" -> 66 [] c = "C" -> 67 [] c = "D" -> 68
    [] c = "E" -> 69 [] c = "F" -> 70
    [] c = "a" -> 97 [] c = "e" -> 101 [] c = "f" -> 102 [] c = "g" -> 103
    [] c = "i" -> 105 [] c = "k" -> 107 [] c = "l" -> 108 [] c = "m" -> 109
    [] c = "o" -> 111 [] c = "p" -> 112 [] c = "r" -> 114 [] c = "s" -> 115
    [] c = "t" -> 116 [] c = "v" -> 118 [] c = "w" -> 119

Digits == <<"0", "1", "2", "3", "4", "5", "6", "7", "8", "9">>

upperhex == Digits \o <<"A", "B", "C", "D", "E", "F">>

IsAlnum(c) ==
  \/ Ord(c) >= 48 /\ Ord(c) <= 57
  \/ Ord(c) >= 65 /\ Ord(c) <= 90
  \/ Ord(c) >= 97 /\ Ord(c) <= 122

RECURSIVE Concat(_)
\* The concatenation of a sequence of strings.
Concat(ss) == IF ss = <<>> THEN <<>> ELSE Head(ss) \o Concat(Tail(ss))

\* strings.HasPrefix, strings.HasSuffix.
HasPrefix(s, c) == Len(s) > 0 /\ s[1] = c
HasSuffix(s, c) == Len(s) > 0 /\ s[Len(s)] = c

\* The index of the first c in s, or 0.
IndexOf(s, c) ==
  IF \E i \in 1..Len(s) : s[i] = c
  THEN CHOOSE i \in 1..Len(s) : s[i] = c /\ \A j \in 1..(i - 1) : s[j] # c
  ELSE 0

\* strings.Cut: the text before and after the first c (after is empty and
\* found is FALSE when s holds no c).
Cut(s, c) ==
  LET i == IndexOf(s, c)
  IN  IF i = 0 THEN [before |-> s, after |-> <<>>, found |-> FALSE]
      ELSE [before |-> SubSeq(s, 1, i - 1),
            after  |-> SubSeq(s, i + 1, Len(s)),
            found  |-> TRUE]

RECURSIVE Split(_, _)
\* The pieces of s between occurrences of c.
Split(s, c) ==
  LET k == Cut(s, c)
  IN  IF k.found THEN <<k.before>> \o Split(k.after, c) ELSE <<s>>

RECURSIVE JoinWith(_, _)
\* strings.Join.
JoinWith(ss, c) ==
  IF ss = <<>> THEN <<>>
  ELSE IF Len(ss) = 1 THEN ss[1]
  ELSE ss[1] \o <<c>> \o JoinWith(Tail(ss), c)

RECURSIVE StrLess(_, _)
\* s < t, byte-wise (Go's string order, as sort.Strings uses it).
StrLess(s, t) ==
  IF t = <<>> THEN FALSE
  ELSE IF s = <<>> THEN TRUE
  ELSE IF Ord(Head(s)) # Ord(Head(t)) THEN Ord(Head(s)) < Ord(Head(t))
  ELSE StrLess(Tail(s), Tail(t))

\* ----------------------------------------------------------------- strconv

RECURSIVE formatBits(_)
\* The decimal digits of n >= 0, most significant first.
formatBits(n) ==
  IF n < 10 THEN <<Digits[n + 1]>>
  ELSE formatBits(n \div 10) \o <<Digits[(n % 10) + 1]>>

\* Itoa with the sign of a negative number lost.
ItoaUnsigned(n) == IF n < 0 THEN formatBits(0 - n) ELSE formatBits(n)

\* strconv.Itoa.
Itoa(n) == IF n < 0 THEN <<"-">> \o formatBits(0 - n) ELSE formatBits(n)

\* -------------------------------------------------------------------- path

RECURSIVE CleanSegs(_, _, _)
\* path.Clean's walk over the elements of a path: "" and "." are dropped,
\* ".." removes the element before it (at the root of a rooted path it is
\* dropped, at the start of a relative path it is kept).
CleanSegs(segs, out, rooted) ==
  IF segs = <<>> THEN out
  ELSE LET s == Head(segs)
           r == Tail(segs)
       IN  IF s = <<>> \/ s = <<".">> THEN CleanSegs(r, out, rooted)
           ELSE IF s = <<".", ".">>
           THEN IF out # <<>> /\ out[Len(out)] # <<".", ".">>
                THEN CleanSegs(r, SubSeq(out, 1, Len(out) - 1), rooted)
                ELSE IF rooted THEN CleanSegs(r, out, rooted)
                ELSE CleanSegs(r, Append(out, s), rooted)
           ELSE CleanSegs(r, Append(out, s), rooted)

\* path.Clean.
Clean(p) ==
  IF p = <<>> THEN <<".">>
  ELSE LET rooted == HasPrefix(p, "/")
           body   == JoinWith(CleanSegs(Split(p, "/"), <<>>, rooted), "/")
       IN  IF rooted THEN <<"/">> \o body
           ELSE IF body = <<>> THEN <<".">> ELSE body

\* path.Join: the non-empty elements joined by "/" and cleaned; "" if all
\* elements are empty.
PathJoin(elem) ==
  LET ne == SelectSeq(elem, LAMBDA e : e # <<>>)
  IN  IF ne = <<>> THEN <<>> ELSE Clean(JoinWith(ne, "/"))

\* ----------------------------------------------------------------- net/url

\* net/url's shouldEscape for the two modes the operations reach:
\* "encodePath" and "encodeQueryComponent".
shouldEscape(c, mode) ==
  IF IsAlnum(c) THEN FALSE
  ELSE IF c \in {"-", "_", ".", "~"} THEN FALSE
  ELSE IF c \in {"$", "&", "+", ",", "/", ":", ";", "=", "?", "@"}
  THEN IF mode = "encodePath" THEN c = "?" ELSE TRUE
  ELSE TRUE

RECURSIVE escape(_, _)
\* net/url's escape: each byte that shouldEscape becomes %XX.
escape(s, mode) ==
  IF s = <<>> THEN <<>>
  ELSE LET c == Head(s)
       IN  (IF shouldEscape(c, mode)
            THEN <<"%", upperhex[(Ord(c) \div 16) + 1], upperhex[(Ord(c) % 16) + 1]>>
            ELSE <<c>>) \o escape(Tail(s), mode)

\* net/url's unescape on a string without "%" (and, in a query component,
\* without "+"): nothing to decode.  Every string the model unescapes is of
\* that kind: identifiers are drawn from IdChars and the base URLs from
\* BackendURLs.
unescape(s, mode) == s

\* net/url's validEncoded.
validEncoded(s, mode) ==
  \A i \in 1..Len(s) :
    \/ s[i] \in {"!", "$", "&", "'", "(", ")", "*", "+", ",", ";", "=", ":", "@"}
    \/ s[i] \in {"[", "]", "%"}
    \/ ~shouldEscape(s[i], mode)

\* URL.EscapedPath.
EscapedPath(u) ==
  IF u.RawPath # <<>> /\ validEncoded(u.RawPath, "encodePath")
     /\ unescape(u.RawPath, "encodePath") = u.Path
  THEN u.RawPath
  ELSE escape(u.Path, "encodePath")

\* URL.setPath: Path is the decoded form; RawPath is kept only when it is
\* not the default encoding of Path.
setPath(u, p) ==
  LET path == unescape(p, "encodePath")
  IN  [u EXCEPT !.Path = path,
                !.RawPath = IF escape(path, "encodePath") = p THEN <<>> ELSE p]

\* URL.JoinPath: a copy of u whose path is u's escaped path joined with elem
\* by path.Join (which cleans "." and ".." and doubled slashes), keeping one
\* trailing slash if the last element has one.
JoinPath(u, elem) ==
  LET e0  == EscapedPath(u)
      all == <<e0>> \o elem
      p0  == IF ~HasPrefix(e0, "/")
             THEN Tail(PathJoin(<<<<"/">> \o e0>> \o elem))
             ELSE PathJoin(all)
      p   == IF HasSuffix(all[Len(all)], "/") /\ ~HasSuffix(p0, "/")
             THEN p0 \o <<"/">> ELSE p0
  IN  setPath(u, p)

\* The scheme and authority of the base URL, which URL.String writes first
\* and no operation touches: one opaque token.
Origin == <<"https://api.novu.co">>

\* URL.String for a URL with a host and no fragment.
String(u) ==
  LET path == EscapedPath(u)
  IN  Origin
      \o (IF path # <<>> /\ path[1] # "/" THEN <<"/">> ELSE <<>>)
      \o path
      \o (IF u.RawQuery # <<>> THEN <<"?">> \o u.RawQuery ELSE <<>>)

RECURSIVE parseQuery(_, _)
\* net/url's parseQuery over the "&"-separated pieces: an empty piece is
\* skipped, the rest is cut at its first "=" and appended to the values of
\* its key.  m maps each key to the sequence of its values.
parseQuery(pieces, m) ==
  IF pieces = <<>> THEN m
  ELSE LET kv == Cut(Head(pieces), "=")
           k  == unescape(kv.before, "encodeQueryComponent")
           v  == unescape(kv.after, "encodeQueryComponent")
       IN  IF Head(pieces) = <<>> THEN parseQuery(Tail(pieces), m)
           ELSE parseQuery(Tail(pieces),
                  IF k \in DOMAIN m
                  THEN [m EXCEPT ![k] = Append(@, v)]
                  ELSE [x \in DOMAIN m \cup {k} |->
                          IF x = k THEN <<v>> ELSE m[x]])

\* URL.Query: the parsed RawQuery.
Query(u) == parseQuery(Split(u.RawQuery, "&"), [x \in {} |-> <<>>])

\* Values.Set.
ValuesSet(v, key, value) ==
  [x \in DOMAIN v \cup {key} |-> IF x = key THEN <<value>> ELSE v[x]]

RECURSIVE SortedKeys(_)
\* The keys in increasing order.
SortedKeys(ks) ==
  IF ks = {} THEN <<>>
  ELSE LET k == CHOOSE x \in ks : \A y \in ks \ {x} : StrLess(x, y)
       IN  <<k>> \o SortedKeys(ks \ {k})

\* Values.Encode: "key=value" for every value of every key, keys sorted,
\* joined by "&".
Encode(v) ==
  LET keys == SortedKeys(DOMAIN v)
      one(k) == [i \in 1..Len(v[k]) |->
                   escape(k, "encodeQueryComponent") \o <<"=">>
                   \o escape(v[k][i], "encodeQueryComponent")]
  IN  JoinWith(Concat([i \in 1..Len(keys) |-> one(keys[i])]), "&")

\* ------------------------------------------------------------ the service

\* The goroutines that call the service.
Procs == {"g1", "g2"}

\* The context goroutine p passes to its call, and context.Background().
Ctx(p) == p
Background == "background"

\* Characters of the identifiers the callers pass.
IdChars == {"a", "/", ".", "?", "#"}

\* Every identifier of at most MaxIdLen characters.
Identifiers == UNION {[1..k -> IdChars] : k \in 0..MaxIdLen}

\* The page and limit arguments the callers pass.
Pages == (-1)..MaxPage

\* A nil pointer.
Nil == [nil |-> TRUE]

\* CreateWorkflowRequest / UpdateWorkflowRequest values.
Workflows == {[name |-> "invoice-flow"], [name |-> "digest"]}

\* The base URLs the client may be configured with (scheme and host are
\* Origin).
BackendURLs ==
  { [Path |-> <<>>, RawPath |-> <<>>, RawQuery |-> <<>>],
    [Path |-> <<"/", "v", "1">>, RawPath |-> <<>>, RawQuery |-> <<>>],
    [Path |-> <<"/", "v", "1", "/">>, RawPath |-> <<>>,
     RawQuery |-> <<"k", "=", "v">>],
    [Path |-> <<"/", "v", "1">>, RawPath |-> <<>>,
     RawQuery |-> <<"p", "a", "g", "e", "=", "9">>] }

\* The path element every operation joins to the base URL.
workflows == <<"w", "o", "r", "k", "f", "l", "o", "w", "s">>

\* http.NoBody.
NoBody == [type |-> "http.NoBody"]

\* JsonResponse{} and a response the transport filled in (wholly or partly).
ZeroResponse == [Data |-> "zero"]
Responses == {ZeroResponse, [Data |-> "received"]}

\* The nil error, a transport failure, and the context's cancellation error.
ErrNil == "nil"
ErrTransport == "transport error"
ErrCanceled == "context canceled"

\* The arguments of a call; a field the operation does not take is Nil.
Args(op, identifier, workflow, status, page, limit) ==
  [op |-> op, identifier |-> identifier, workflow |-> workflow,
   status |-> status, page |-> page, limit |-> limit]

NoCall == Args("none", Nil, Nil, Nil, Nil, Nil)
NoRequest == [method |-> "none"]
NoResult == [resp |-> Nil, err |-> "none"]

VARIABLES
  config,     \* e.client.config: BackendURL and the HTTP client handle
  config0,    \* the configuration the service was constructed with
  pc,         \* per goroutine: "idle", "inflight" (inside makeHTTPRequest), "done"
  call,       \* per goroutine: the operation it called and its arguments
  req,        \* per goroutine: what the operation handed to makeHTTPRequest
  tret,       \* per goroutine: the (resp, err) makeHTTPRequest returned
  ret,        \* per goroutine: the (resp, err) the operation returned
  ncalls,     \* per goroutine: makeHTTPRequest invocations of the current call
  cancelled   \* the contexts that have been cancelled

vars == <<config, config0, pc, call, req, tret, ret, ncalls, cancelled>>

\* ------------------------------------------------------- request building

\* The context replaced by context.Background() instead of being forwarded.
BackgroundCtx(ctx) == Background

\* The context an operation hands to makeHTTPRequest: its own ctx argument.
ForwardedCtx(ctx) == ctx

\* URL of CreateWorkflow: BackendURL.JoinPath("workflows").
CreateWorkflowURL(cfg) == JoinPath(cfg.BackendURL, <<workflows>>)

\* URL of UpdateWorkflow, UpdateWorkflowStatus, GetTenant and DeleteWorkflow:
\* BackendURL.JoinPath("workflows", identifier).
IdentifierURL(cfg, identifier) ==
  JoinPath(cfg.BackendURL, <<workflows, identifier>>)

\* GetWorkflowsURL with the two arguments swapped.
GetWorkflowsURLSwapped(cfg, page, limit) ==
  LET URL == JoinPath(cfg.BackendURL, <<workflows>>)
      v0  == Query(URL)
      v1  == ValuesSet(v0, <<"p", "a", "g", "e">>, Itoa(limit))
      v2  == ValuesSet(v1, <<"l", "i", "m", "i", "t">>, Itoa(page))
  IN  [URL EXCEPT !.RawQuery = Encode(v2)]

\* URL of GetWorkflows: the joined URL with page and limit set in its query.
GetWorkflowsURL(cfg, page, limit) ==
  LET URL == JoinPath(cfg.BackendURL, <<workflows>>)
      v0  == Query(URL)
      v1  == ValuesSet(v0, <<"p", "a", "g", "e">>, Itoa(page))
      v2  == ValuesSet(v1, <<"l", "i", "m", "i", "t">>, Itoa(limit))
  IN  [URL EXCEPT !.RawQuery = Encode(v2)]

\* GetWorkflows working on the configuration's URL itself, not on a copy.
ConfigAliased(cfg, URL) == [cfg EXCEPT !.BackendURL = URL]

\* GetWorkflows assigns URL.RawQuery on the copy JoinPath returned, so the
\* configuration keeps its BackendURL.
ConfigAfterGetWorkflows(cfg, URL) == cfg

\* The envelope with its Data left unset.
CreatePayloadNoData(workflow) == [type |-> "WorkflowCreatePayload", Data |-> Nil]

\* WorkflowCreatePayload{Data: &workflow}.
CreatePayload(workflow) == [type |-> "WorkflowCreatePayload", Data |-> workflow]

\* WorkflowUpdatePayload{Data: workflow}.
UpdatePayload(workflow) == [type |-> "WorkflowUpdatePayload", Data |-> workflow]

\* WorkflowStatusUpdatePayload{Data: struct{Active bool}{Active: status}}.
StatusPayload(status) ==
  [type |-> "WorkflowStatusUpdatePayload", Data |-> [Active |-> status]]

\* An empty envelope passed where no body is meant.
EmptyEnvelopePayload == [type |-> "WorkflowUpdatePayload", Data |-> Nil]

\* The payload GetWorkflows, GetTenant and DeleteWorkflow pass.
NoBodyPayload == NoBody

\* What CreateWorkflow hands to makeHTTPRequest.
CreateWorkflowRequest(cfg, ctx, workflow) ==
  [ctx |-> ForwardedCtx(ctx), method |-> "POST",
   url |-> String(CreateWorkflowURL(cfg)),
   payload |-> CreatePayload(workflow)]

\* What UpdateWorkflow hands to makeHTTPRequest.
UpdateWorkflowRequest(cfg, ctx, identifier, workflow) ==
  [ctx |-> ForwardedCtx(ctx), method |-> "PUT",
   url |-> String(IdentifierURL(cfg, identifier)),
   payload |-> UpdatePayload(workflow)]

\* What UpdateWorkflowStatus hands to makeHTTPRequest.
UpdateWorkflowStatusRequest(cfg, ctx, identifier, status) ==
  [ctx |-> ForwardedCtx(ctx), method |-> "PUT",
   url |-> String(IdentifierURL(cfg, identifier)),
   payload |-> StatusPayload(status)]

\* What GetWorkflows hands to makeHTTPRequest.
GetWorkflowsRequest(cfg, ctx, page, limit) ==
  [ctx |-> ForwardedCtx(ctx), method |-> "GET",
   url |-> String(GetWorkflowsURL(cfg, page, limit)),
   payload |-> NoBodyPayload]

\* What GetTenant hands to makeHTTPRequest.
GetTenantRequest(cfg, ctx, identifier) ==
  [ctx |-> ForwardedCtx(ctx), method |-> "GET",
   url |-> String(IdentifierURL(cfg, identifier)),
   payload |-> NoBodyPayload]

\* What DeleteWorkflow hands to makeHTTPRequest.
DeleteWorkflowRequest(cfg, ctx, identifier) ==
  [ctx |-> ForwardedCtx(ctx), method |-> "DELETE",
   url |-> String(IdentifierURL(cfg, identifier)),
   payload |-> NoBodyPayload]

\* ----------------------------------------------------------- the transport

\* The (resp, err) pairs makeHTTPRequest may return for a request whose
\* context is ctx: any response with any error, and the cancellation error
\* once ctx is cancelled.
makeHTTPRequestOutcomes(ctx, done) ==
  IF ctx \in done
  THEN {[resp |-> r, err |-> ErrCanceled] : r \in Responses}
  ELSE {[resp |-> r, err |-> e] : r \in Responses, e \in {ErrNil, ErrTransport}}

\* The JSON object of the anonymous struct { Active bool `json:"active"` }.
MarshalStatusData(d) == [active |-> d.Active]

\* The JSON object of a payload envelope: its Data under the key "data".
Marshal(payload) ==
  [data |-> IF payload.type = "WorkflowStatusUpdatePayload"
            THEN MarshalStatusData(payload.Data)
            ELSE payload.Data]

\* The body of the HTTP request the transport sends for a payload.
RequestBody(payload) ==
  IF payload = NoBody THEN [kind |-> "none"]
  ELSE [kind |-> "json", value |-> Marshal(payload)]

\* ------------------------------------------------------------ the returns

\* CreateWorkflow: on error an empty JsonResponse and the error.
CreateWorkflowReturn(t) ==
  IF t.err # ErrNil THEN [resp |-> ZeroResponse, err |-> t.err]
  ELSE [resp |-> t.resp, err |-> ErrNil]

\* The error wrapped before it is returned.
RelayReturnWrapped(t) ==
  IF t.err # ErrNil THEN [resp |-> t.resp, err |-> "workflows: wrapped error"]
  ELSE [resp |-> t.resp, err |-> ErrNil]

\* The response dropped on error, as CreateWorkflow does.
RelayReturnDropsResponse(t) ==
  IF t.err # ErrNil THEN [resp |-> ZeroResponse, err |-> t.err]
  ELSE [resp |-> t.resp, err |-> ErrNil]

\* The other five operations: on error resp and err as received.
RelayReturn(t) ==
  IF t.err # ErrNil THEN [resp |-> t.resp, err |-> t.err]
  ELSE [resp |-> t.resp, err |-> ErrNil]

Return(op, t) ==
  IF op = "CreateWorkflow" THEN CreateWorkflowReturn(t) ELSE RelayReturn(t)

\* ---------------------------------------------------------------- actions

Init ==
  /\ config0 \in {[BackendURL |-> u, HTTPClient |-> "http.Client"] : u \in BackendURLs}
  /\ config = config0
  /\ pc = [p \in Procs |-> "idle"]
  /\ call = [p \in Procs |-> NoCall]
  /\ req = [p \in Procs |-> NoRequest]
  /\ tret = [p \in Procs |-> NoResult]
  /\ ret = [p \in Procs |-> NoResult]
  /\ ncalls = [p \in Procs |-> 0]
  /\ cancelled = {}

\* Goroutine p enters an operation with arguments a: the operation builds
\* the request r and invokes makeHTTPRequest with it.
Invoke(p, a, r, cfgAfter) ==
  /\ pc[p] = "idle"
  /\ call' = [call EXCEPT ![p] = a]
  /\ req' = [req EXCEPT ![p] = r]
  /\ ncalls' = [ncalls EXCEPT ![p] = @ + 1]
  /\ pc' = [pc EXCEPT ![p] = "inflight"]
  /\ config' = cfgAfter
  /\ UNCHANGED <<config0, tret, ret, cancelled>>

CreateWorkflow(p) ==
  \E w \in Workflows :
    Invoke(p, Args("CreateWorkflow", Nil, w, Nil, Nil, Nil),
           CreateWorkflowRequest(config, Ctx(p), w), config)

UpdateWorkflow(p, ids) ==
  \E id \in ids, w \in Workflows \cup {Nil} :
    Invoke(p, Args("UpdateWorkflow", id, w, Nil, Nil, Nil),
           UpdateWorkflowRequest(config, Ctx(p), id, w), config)

UpdateWorkflowStatus(p, ids) ==
  \E id \in ids, status \in BOOLEAN :
    Invoke(p, Args("UpdateWorkflowStatus", id, Nil, status, Nil, Nil),
           UpdateWorkflowStatusRequest(config, Ctx(p), id, status), config)

GetWorkflows(p, pages) ==
  \E page \in pages, limit \in pages :
    Invoke(p, Args("GetWorkflows", Nil, Nil, Nil, page, limit),
           GetWorkflowsRequest(config, Ctx(p), page, limit),
           ConfigAfterGetWorkflows(config, GetWorkflowsURL(config, page, limit)))

GetTenant(p, ids) ==
  \E id \in ids :
    Invoke(p, Args("GetTenant", id, Nil, Nil, Nil, Nil),
           GetTenantRequest(config, Ctx(p), id), config)

DeleteWorkflow(p, ids) ==
  \E id \in ids :
    Invoke(p, Args("DeleteWorkflow", id, Nil, Nil, Nil, Nil),
           DeleteWorkflowRequest(config, Ctx(p), id), config)

\* makeHTTPRequest returns to the operation of goroutine p, which returns to
\* its caller.
Complete(p) ==
  /\ pc[p] = "inflight"
  /\ \E t \in makeHTTPRequestOutcomes(req[p].ctx, cancelled) :
       /\ tret' = [tret EXCEPT ![p] = t]
       /\ ret' = [ret EXCEPT ![p] = Return(call[p].op, t)]
  /\ pc' = [pc EXCEPT ![p] = "done"]
  /\ UNCHANGED <<config, config0, call, req, ncalls, cancelled>>

\* The caller of goroutine p cancels the context of its call.
Cancel(p) ==
  /\ pc[p] \in {"idle", "inflight"}
  /\ Ctx(p) \notin cancelled
  /\ cancelled' = cancelled \cup {Ctx(p)}
  /\ UNCHANGED <<config, config0, pc, call, req, tret, ret, ncalls>>

\* The caller of goroutine p takes the result; its next call gets a fresh
\* context.
Collect(p) ==
  /\ pc[p] = "done"
  /\ pc' = [pc EXCEPT ![p] = "idle"]
  /\ call' = [call EXCEPT ![p] = NoCall]
  /\ req' = [req EXCEPT ![p] = NoRequest]
  /\ tret' = [tret EXCEPT ![p] = NoResult]
  /\ ret' = [ret EXCEPT ![p] = NoResult]
  /\ ncalls' = [ncalls EXCEPT ![p] = 0]
  /\ cancelled' = cancelled \ {Ctx(p)}
  /\ UNCHANGED <<config, config0>>

\* One caller, every identifier and every page.
Next ==
  \/ CreateWorkflow("g1")
  \/ UpdateWorkflow("g1", Identifiers)
  \/ UpdateWorkflowStatus("g1", Identifiers)
  \/ GetWorkflows("g1", Pages)
  \/ GetTenant("g1", Identifiers)
  \/ DeleteWorkflow("g1", Identifiers)
  \/ Complete("g1")
  \/ Cancel("g1")
  \/ Collect("g1")

Spec == Init /\ [][Next]_vars

\* The identifiers and pages of the concurrent callers.
ConcurrentIds == {<<"a">>, <<"a", "/", ".", ".">>}
ConcurrentPages == {0, 10}

\* Two concurrent callers.
NextConcurrent ==
  \E p \in Procs :
    \/ CreateWorkflow(p)
    \/ UpdateWorkflow(p, ConcurrentIds)
    \/ UpdateWorkflowStatus(p, ConcurrentIds)
    \/ GetWorkflows(p, ConcurrentPages)
    \/ GetTenant(p, ConcurrentIds)
    \/ DeleteWorkflow(p, ConcurrentIds)
    \/ Complete(p)
    \/ Cancel(p)
    \/ Collect(p)

\* makeHTTPRequest returns: a transport call in flight ends, with a result or
\* with the error of its context.
FairSpec ==
  Init /\ [][NextConcurrent]_vars /\ \A p \in Procs : WF_vars(Complete(p))

\* ------------------------------------------------ reading a request back

\* Goroutine p has handed a request to makeHTTPRequest in its current call.
Busy(p) == pc[p] \in {"inflight", "done"}

\* The request target of a URL string: what follows scheme and authority.
Target(url) == Tail(url)

\* The path and the query a server reads from a URL string: the query
\* starts after the first "?".
TargetPath(url) == Cut(Target(url), "?").before
TargetQuery(url) == Cut(Target(url), "?").after

\* The base path without its trailing slash.
BasePath(cfg) ==
  LET b == cfg.BackendURL.Path
  IN  IF HasSuffix(b, "/") THEN SubSeq(b, 1, Len(b) - 1) ELSE b

\* <base path>/workflows
CollectionPath(cfg) == BasePath(cfg) \o <<"/">> \o workflows

RECURSIVE SegmentEscape(_)
\* An identifier as one path segment: every character that is not
\* unreserved is percent-encoded.
SegmentEscape(s) ==
  IF s = <<>> THEN <<>>
  ELSE (IF IsAlnum(Head(s)) \/ Head(s) \in {"-", "_", ".", "~"}
        THEN <<Head(s)>>
        ELSE <<"%", upperhex[(Ord(Head(s)) \div 16) + 1],
               upperhex[(Ord(Head(s)) % 16) + 1]>>)
       \o SegmentEscape(Tail(s))

\* The "key=value" pieces of a query string, in order.
QueryPairs(q) ==
  IF q = <<>> THEN <<>>
  ELSE LET pieces == Split(q, "&")
       IN  [i \in 1..Len(pieces) |->
              [key   |-> Cut(pieces[i], "=").before,
               value |-> Cut(pieces[i], "=").after,
               eq    |-> Cut(pieces[i], "=").found]]

RECURSIVE DigitsValue(_, _)
\* The number a string of decimal digits denotes, -1 if a character is no
\* digit.
DigitsValue(s, acc) ==
  IF s = <<>> THEN acc
  ELSE IF ~(Ord(Head(s)) >= 48 /\ Ord(Head(s)) <= 57) THEN -1
  ELSE DigitsValue(Tail(s), acc * 10 + (Ord(Head(s)) - 48))

\* s is the decimal numeral of n: digits only (after "-" if n < 0), no
\* leading zero.
IsDecimalOf(s, n) ==
  LET d == IF n < 0 THEN Tail(s) ELSE s
      m == IF n < 0 THEN 0 - n ELSE n
  IN  /\ Len(s) > 0
      /\ (n < 0) => s[1] = "-"
      /\ Len(d) > 0
      /\ (Len(d) > 1) => d[1] # "0"
      /\ DigitsValue(d, 0) = m

IdOps == {"UpdateWorkflow", "UpdateWorkflowStatus", "GetTenant", "DeleteWorkflow"}
BodylessOps == {"GetWorkflows", "GetTenant", "DeleteWorkflow"}

pageKey == <<"p", "a", "g", "e">>
limitKey == <<"l", "i", "m", "i", "t">>

\* ------------------------------------------------------------------ claims

\* C1: for every identifier (here: every non-empty one), the four operations
\* that take one hand the transport a URL whose path is
\* <base path>/workflows/{id} with the identifier as one escaped segment,
\* and whose query is the base URL's.
C1_IdentifierIsOneSegment ==
  \A p \in Procs :
    (Busy(p) /\ call[p].op \in IdOps /\ call[p].identifier # <<>>) =>
      /\ TargetPath(req[p].url)
           = CollectionPath(config0) \o <<"/">> \o SegmentEscape(call[p].identifier)
      /\ TargetQuery(req[p].url) = config0.BackendURL.RawQuery

\* The reserved characters "?" and "#" of an identifier never reach the
\* query: whatever the identifier, the query stays the base URL's.
IdentifierNeverReachesQuery ==
  \A p \in Procs :
    (Busy(p) /\ call[p].op \in IdOps) =>
      /\ TargetQuery(req[p].url) = config0.BackendURL.RawQuery
      /\ \A i \in 1..Len(TargetPath(req[p].url)) :
           TargetPath(req[p].url)[i] \notin {"?", "#"}

\* An identifier that is one clean segment (no "/", not "", "." or "..")
\* lands as <base path>/workflows/{escaped id}.
PlainIdentifierIsOneSegment ==
  \A p \in Procs :
    (/\ Busy(p) /\ call[p].op \in IdOps
     /\ call[p].identifier \notin {<<>>, <<".">>, <<".", ".">>}
     /\ \A i \in 1..Len(call[p].identifier) : call[p].identifier[i] # "/") =>
      TargetPath(req[p].url)
        = CollectionPath(config0) \o <<"/">> \o SegmentEscape(call[p].identifier)

\* C2: a call invokes makeHTTPRequest exactly once, and an error it returns
\* is the error the operation returns.
C2_ErrorPropagatedOnce ==
  \A p \in Procs :
    /\ Busy(p) => ncalls[p] = 1
    /\ (pc[p] = "done" /\ tret[p].err # ErrNil) => ret[p].err = tret[p].err

C2_Witness ==
  /\ pc["g1"] = "done"
  /\ call["g1"].op = "GetWorkflows"
  /\ tret["g1"].err = ErrTransport
  /\ ret["g1"].err = ErrTransport

\* C3 as stated: every operation returns the very (response, error) pair
\* makeHTTPRequest returned, on success and on failure.
C3_PairUnchanged ==
  \A p \in Procs : pc[p] = "done" => ret[p] = tret[p]

\* C3 amended: UpdateWorkflow, UpdateWorkflowStatus, GetWorkflows, GetTenant
\* and DeleteWorkflow return the transport's pair unchanged; CreateWorkflow
\* returns it unchanged on success and (JsonResponse{}, err) on failure.
C3_PairUnchangedButCreate ==
  \A p \in Procs :
    pc[p] = "done" =>
      IF call[p].op = "CreateWorkflow" /\ tret[p].err # ErrNil
      THEN ret[p] = [resp |-> ZeroResponse, err |-> tret[p].err]
      ELSE ret[p] = tret[p]

C3_Witness ==
  /\ pc["g1"] = "done"
  /\ call["g1"].op = "CreateWorkflow"
  /\ tret["g1"].err = ErrTransport
  /\ tret["g1"].resp # ZeroResponse
  /\ ret["g1"].resp = ZeroResponse

\* C4: CreateWorkflow(r) issues POST to <base path>/workflows, adds nothing
\* to the query, and its body is the JSON object {"data": r}.
C4_CreateRequest ==
  \A p \in Procs :
    (Busy(p) /\ call[p].op = "CreateWorkflow") =>
      /\ req[p].method = "POST"
      /\ TargetPath(req[p].url) = CollectionPath(config0)
      /\ TargetQuery(req[p].url) = config0.BackendURL.RawQuery
      /\ RequestBody(req[p].payload)
           = [kind |-> "json", value |-> [data |-> call[p].workflow]]

C4_Witness ==
  /\ pc["g1"] = "inflight"
  /\ call["g1"].op = "CreateWorkflow"
  /\ call["g1"].workflow = [name |-> "invoice-flow"]
  /\ config0.BackendURL.Path = <<"/", "v", "1", "/">>
  /\ req["g1"].method = "POST"

\* The parameters of the base URL's query other than page and limit.
BaseOtherPairs(cfg) ==
  SelectSeq(QueryPairs(cfg.BackendURL.RawQuery),
            LAMBDA kv : kv.key \notin {pageKey, limitKey})

\* C5 as stated: for non-negative page and limit the query of GetWorkflows'
\* URL holds exactly two parameters, page=<page> and limit=<limit> in
\* decimal, whatever the base URL's own query.
C5_ExactlyPageAndLimit ==
  \A p \in Procs :
    (/\ Busy(p) /\ call[p].op = "GetWorkflows"
     /\ call[p].page >= 0 /\ call[p].limit >= 0) =>
      LET kvs == QueryPairs(TargetQuery(req[p].url))
      IN  /\ Len(kvs) = 2
          /\ \E i \in 1..Len(kvs) :
               kvs[i].key = pageKey /\ IsDecimalOf(kvs[i].value, call[p].page)
          /\ \E i \in 1..Len(kvs) :
               kvs[i].key = limitKey /\ IsDecimalOf(kvs[i].value, call[p].limit)

\* C5 amended: for non-negative page and limit the query holds page=<page>
\* and limit=<limit> in decimal, once each, and besides them exactly the
\* parameters of the base URL's own query other than page and limit (so
\* exactly the two when the base URL has none).
C5_PageAndLimitPlusBase ==
  \A p \in Procs :
    (/\ Busy(p) /\ call[p].op = "GetWorkflows"
     /\ call[p].page >= 0 /\ call[p].limit >= 0) =>
      LET kvs   == QueryPairs(TargetQuery(req[p].url))
          pages == {i \in 1..Len(kvs) : kvs[i].key = pageKey}
          lims  == {i \in 1..Len(kvs) : kvs[i].key = limitKey}
          other == SelectSeq(kvs, LAMBDA kv : kv.key \notin {pageKey, limitKey})
          base  == BaseOtherPairs(config0)
      IN  /\ Cardinality(pages) = 1
          /\ Cardinality(lims) = 1
          /\ \A i \in pages : kvs[i].eq /\ IsDecimalOf(kvs[i].value, call[p].page)
          /\ \A i \in lims : kvs[i].eq /\ IsDecimalOf(kvs[i].value, call[p].limit)
          /\ Len(other) = Len(base)
          /\ {other[i] : i \in 1..Len(other)} = {base[i] : i \in 1..Len(base)}

C5_Witness ==
  /\ pc["g1"] = "inflight"
  /\ call["g1"].op = "GetWorkflows"
  /\ call["g1"].page = 2
  /\ call["g1"].limit = 10
  /\ config0.BackendURL.RawQuery = <<"k", "=", "v">>
  /\ Len(QueryPairs(TargetQuery(req["g1"].url))) = 3

\* C6 as stated: GetWorkflows(page, limit) issues GET to
\* <base path>/workflows?page={page}&limit={limit}, page written before
\* limit (here for a base URL without a query of its own).
C6_PageBeforeLimit ==
  \A p \in Procs :
    (/\ Busy(p) /\ call[p].op = "GetWorkflows"
     /\ config0.BackendURL.RawQuery = <<>>) =>
      LET kvs == QueryPairs(TargetQuery(req[p].url))
      IN  /\ req[p].method = "GET"
          /\ TargetPath(req[p].url) = CollectionPath(config0)
          /\ Len(kvs) = 2
          /\ kvs[1].key = pageKey /\ kvs[1].eq
          /\ IsDecimalOf(kvs[1].value, call[p].page)
          /\ kvs[2].key = limitKey /\ kvs[2].eq
          /\ IsDecimalOf(kvs[2].value, call[p].limit)

\* C6 amended: for a base URL without a query of its own, GetWorkflows(page,
\* limit) issues GET to <base path>/workflows?limit={limit}&page={page}: the
\* parameters are written in the order of their keys, limit before page.
C6_LimitBeforePage ==
  \A p \in Procs :
    (/\ Busy(p) /\ call[p].op = "GetWorkflows"
     /\ config0.BackendURL.RawQuery = <<>>) =>
      LET kvs == QueryPairs(TargetQuery(req[p].url))
      IN  /\ req[p].method = "GET"
          /\ TargetPath(req[p].url) = CollectionPath(config0)
          /\ Len(kvs) = 2
          /\ kvs[1].key = limitKey /\ kvs[1].eq
          /\ IsDecimalOf(kvs[1].value, call[p].limit)
          /\ kvs[2].key = pageKey /\ kvs[2].eq
          /\ IsDecimalOf(kvs[2].value, call[p].page)

C6_Witness ==
  /\ pc["g1"] = "inflight"
  /\ call["g1"].op = "GetWorkflows"
  /\ call["g1"].page = 2
  /\ call["g1"].limit = 25
  /\ config0.BackendURL.Path = <<>>
  /\ Target(req["g1"].url)
       = <<"/">> \o workflows \o <<"?">> \o limitKey \o <<"=", "2", "5", "&">>
         \o pageKey \o <<"=", "2">>

\* C7: for every identifier (here: every non-empty one) and boolean b,
\* UpdateWorkflowStatus(id, b) issues PUT to <base path>/workflows/{id} with
\* the body {"data": {"active": b}}.
C7_StatusRequest ==
  \A p \in Procs :
    (/\ Busy(p) /\ call[p].op = "UpdateWorkflowStatus"
     /\ call[p].identifier # <<>>) =>
      /\ req[p].method = "PUT"
      /\ TargetPath(req[p].url)
           = CollectionPath(config0) \o <<"/">> \o SegmentEscape(call[p].identifier)
      /\ RequestBody(req[p].payload)
           = [kind |-> "json", value |-> [data |-> [active |-> call[p].status]]]

\* The method and body of UpdateWorkflowStatus alone: PUT with
\* {"data": {"active": b}}, for both values of b.
StatusMethodAndBody ==
  \A p \in Procs :
    (Busy(p) /\ call[p].op = "UpdateWorkflowStatus") =>
      /\ req[p].method = "PUT"
      /\ RequestBody(req[p].payload)
           = [kind |-> "json", value |-> [data |-> [active |-> call[p].status]]]

\* C8: every operation hands its caller's context to makeHTTPRequest, and a
\* call whose context is cancelled while the transport is in flight comes
\* to return the cancellation error, having invoked the transport once.
C8_CancellationHonoured ==
  /\ [](\A p \in Procs : Busy(p) => req[p].ctx = Ctx(p))
  /\ \A p \in Procs :
       (pc[p] = "inflight" /\ Ctx(p) \in cancelled)
         ~> (pc[p] = "done" /\ ret[p].err = ErrCanceled /\ ncalls[p] = 1)

C8_Witness ==
  /\ pc["g1"] = "done"
  /\ call["g1"].op = "GetTenant"
  /\ Ctx("g1") \in cancelled
  /\ ret["g1"].err = ErrCanceled
  /\ ncalls["g1"] = 1

\* C9: GetWorkflows, GetTenant and DeleteWorkflow pass http.NoBody, for which
\* the transport sends no body.
C9_NoBody ==
  \A p \in Procs :
    (Busy(p) /\ call[p].op \in BodylessOps) =>
      /\ req[p].payload = NoBody
      /\ RequestBody(req[p].payload) = [kind |-> "none"]

C9_Witness ==
  /\ pc["g1"] = "inflight"
  /\ call["g1"].op = "DeleteWorkflow"
  /\ req["g1"].method = "DELETE"
  /\ RequestBody(req["g1"].payload).kind = "none"

\* C10: whatever the interleaving of the callers, the configuration stays
\* the one the service was constructed with, two calls with the same
\* arguments build the same request, and the query of a call other than
\* GetWorkflows is the base URL's (no page or limit of another call).
C10_CallsIndependent ==
  /\ config = config0
  /\ \A p \in Procs, q \in Procs :
       (Busy(p) /\ Busy(q) /\ call[p] = call[q]) =>
         /\ req[p].method = req[q].method
         /\ req[p].url = req[q].url
         /\ req[p].payload = req[q].payload
  /\ \A p \in Procs :
       (Busy(p) /\ call[p].op # "GetWorkflows") =>
         TargetQuery(req[p].url) = config0.BackendURL.RawQuery

C10_Witness ==
  /\ pc["g1"] = "done"
  /\ call["g1"].op = "GetWorkflows"
  /\ call["g1"].page = 10
  /\ pc["g2"] = "inflight"
  /\ call["g2"].op = "UpdateWorkflow"
  /\ config0.BackendURL.RawQuery = <<>>
  /\ TargetQuery(req["g2"].url) = <<>>

====
